---------------------------- MODULE Spec2Model ----------------------------
(***************************************************************************)
(* koishi-plugin-emojis: metadata cache controller, refresh orchestrator   *)
(* and metadata store, modelled from src/src/index.ts and src/src/utils.ts *)
(*                                                                         *)
(* One process (the bot) runs up to four asynchronous activities on one    *)
(* event loop: "boot" (apply -> await loadMetadata), "detached" (the       *)
(* loadMetadata(ctx) call at index.ts:130 that nobody awaits), "timer"     *)
(* (the ctx.setInterval callback) and "manual" (the emoji.update action).  *)
(* Every await is a point where the others may run; code between two       *)
(* awaits is one atomic step.                                              *)
(*                                                                         *)
(* src/unnamed/part_000 is another revision of index.ts (getMetadataFile   *)
(* for downloadMetadata, a loadMetadata that never sets the Store); both   *)
(* export apply, so only one can be the plugin. The model follows          *)
(* src/src/index.ts, the file at the package's entry path.                 *)
(***************************************************************************)
EXTENDS Integers, Sequences, FiniteSets, TLC

VARIABLES
  disk,        \* data/emojis: [meta |-> metadata.json, cache |-> metadata.cache.json]
  store,       \* utils.ts:3   let emojiMetadata
  remote,      \* the resource behind config.metadataUrl
  task,        \* the four activities: position and locals
  timerOn,     \* the ctx.setInterval callback is registered
  cmdsOn,      \* the commands emoji.update and emoji are registered
  autoUpdate,  \* config.autoUpdate
  overlapped,  \* a refresh started while the other refresher was in flight,
               \* and a refresher has been in flight ever since
  lookupRes    \* what the last emoji lookup answered

vars == <<disk, store, remote, task, timerOn, cmdsOn, autoUpdate, overlapped, lookupRes>>

\* ------------------------------------------------------------------ bounds
MaxVer == 1       \* the remote resource takes versions 0..MaxVer

\* ------------------------------------------------------------------ values
Procs == {"boot", "detached", "timer", "manual"}
Refreshers == {"timer", "manual"}

Undefined == [defined |-> FALSE, v |-> 0]
Tok(v) == [defined |-> TRUE, v |-> v]

\* metadata.json: absent, or the bytes of response src (json or not json).
\* A writeFile is one step: the storage layer leaves no half-written file.
AbsentMeta == [kind |-> "absent", src |-> 0]
MetaFile(kind, src) == [kind |-> kind, src |-> src]

\* metadata.cache.json: absent, or JSON.stringify of a CacheMeta built from
\* response src
AbsentCache == [kind |-> "absent", src |-> 0, etag |-> Undefined,
                lastModified |-> Undefined]

\* interface CacheMeta { etag?: string; lastModified?: string }
EmptyCacheMeta == [etag |-> Undefined, lastModified |-> Undefined]

NoHeaders == [inm |-> Undefined, ims |-> Undefined]
NoResp == [ver |-> 0, kind |-> "none", etag |-> Undefined, lastModified |-> Undefined]

\* let emojiMetadata: EmojiMetadata  (undefined until the first set)
Unloaded == [loaded |-> FALSE, doc |-> 0]
Document(src) == [loaded |-> TRUE, doc |-> src]
\* JSON.parse of a body that is the JSON text null: it is assigned like a
\* document and fails the `!emojiMetadata` test of the queries
Null == [loaded |-> FALSE, doc |-> 1]

IdleTask == [pc |-> "idle", cold |-> FALSE, req |-> NoHeaders, resp |-> NoResp,
             data |-> AbsentMeta, status |-> "none", dl |-> "none",
             result |-> "none", w |-> 0, gets |-> 0, sets |-> 0,
             wrote |-> {}]

\* an activity that has ended keeps its outcome and drops its locals
Ended(tk, res) ==
  [IdleTask EXCEPT !.pc = "done", !.result = res, !.cold = tk.cold,
                   !.status = tk.status, !.dl = tk.dl, !.gets = tk.gets,
                   !.sets = tk.sets, !.wrote = tk.wrote]

Active(tk, t) == tk[t].pc \notin {"idle", "done"}

\* ------------------------------------------------------------ conversions
\* JSON.parse(data) of metadata.json: a complete json body parses to its
\* document, anything else throws SyntaxError
ParseOk(file) == file.kind \in {"json", "null"}
ParseMetadata(file) ==
  IF file.kind = "null" THEN Null ELSE Document(file.src)

\* JSON.stringify(newMeta): undefined members are dropped, so a CacheMeta
\* with both members undefined is written as {}
StringifyCacheMeta(m, src) ==
  [kind |-> "desc", src |-> src, etag |-> m.etag,
   lastModified |-> m.lastModified]

\* try { cacheMeta = JSON.parse(readFile(cachePath)) } catch { }
ReadCacheMeta(file) ==
  IF file.kind = "desc"
    THEN [etag |-> file.etag, lastModified |-> file.lastModified]
    ELSE EmptyCacheMeta

\* if (cacheMeta.etag) headers['If-None-Match'] = cacheMeta.etag ...
RequestHeaders(m) == [inm |-> m.etag, ims |-> m.lastModified]

\* response.headers is the fetch Headers object handed through by decoder:
\* its values are read with .get(name); property access by name finds no
\* such property
HeaderProperty(resp, name) == Undefined

\* const newMeta = { etag: response.headers['etag'],
\*                   lastModified: response.headers['last-modified'] }
NewCacheMeta(resp) ==
  [etag |-> HeaderProperty(resp, "etag"),
   lastModified |-> HeaderProperty(resp, "lastModified")]

\* getEmojiData / getSupportedEmoji: if (!emojiMetadata) throw 元数据未加载
getEmojiData(s) == IF ~s.loaded THEN "notLoaded" ELSE "answered"


\* mutant: the first document stays (emojiMetadata ??= metadata)
setEmojiMetadataOnce(old, metadata) == IF old.loaded THEN old ELSE metadata

\* export function setEmojiMetadata(metadata) { emojiMetadata = metadata }
setEmojiMetadata(old, metadata) == metadata

\* utils.getSupportedEmoji: throws 元数据未加载 on a falsy emojiMetadata
getSupportedEmoji(s) == IF ~s.loaded THEN "notLoaded" ELSE "answered"

\* mutant: the descriptor is written first
WriteOrderDescriptorFirst == <<"cache", "meta">>

\* downloadMetadata writes metadata.json (line 94), then metadata.cache.json
\* (line 100)
WriteOrder == <<"meta", "cache">>

\* the bytes a writeFile of file f puts on disk for response resp
FileBytes(f, resp) ==
  IF f = "meta" THEN MetaFile(resp.kind, resp.ver)
                ELSE StringifyCacheMeta(NewCacheMeta(resp), resp.ver)

\* how ctx.http.get may settle: a 200 with a body, a 200 with no bytes, a
\* 304, an error status (the rejection carries .response), or a timeout
\* (code ECONNABORTED); the code puts no condition on the request
ServerAnswers(req) == {"200", "empty", "304", "httperr", "timeout"}

\* mutant: the catch block logs and returns false
CaughtReturnsFalse(err) == "false"

\* the catch block 104-115: whichever branch the error takes (error.response,
\* ECONNABORTED, any other), downloadMetadata throws
Caught(err) == "threw"

\* mutant: no status check, a 304 is written to disk like a 200
AfterResponseNo304Check(st) ==
  CASE st = "empty" -> Caught("empty")
    [] st \in {"httperr", "timeout"} -> Caught(st)
    [] OTHER        -> "write"

\* downloadMetadata 86-93 on the settled GET: a 304 returns false, an empty
\* body throws 服务器响应数据为空 into the catch block, a rejected GET lands
\* in the catch block, anything else is written to disk
AfterResponse(st) ==
  CASE st = "304"   -> "false"
    [] st = "empty" -> Caught("empty")
    [] st \in {"httperr", "timeout"} -> Caught(st)
    [] OTHER        -> "write"

\* the response headers a 200 carries for version v
ServerHeaders(v) == { [etag |-> Tok(v), lastModified |-> Tok(v)] }

\* the bodies a 200 may carry: the json document, or bytes that are no json
ServerBodies == {"json", "garbage"}
\* and a body that is JSON but no document: the text null
AnyBodies == ServerBodies \cup {"null"}

\* ------------------------------------------------------------------- Init
Init ==
  /\ disk \in { [meta |-> AbsentMeta, cache |-> AbsentCache],
                [meta |-> MetaFile("json", 0), cache |-> AbsentCache],
                [meta |-> MetaFile("json", 0),
                 cache |-> [kind |-> "desc", src |-> 0, etag |-> Tok(0),
                            lastModified |-> Tok(0)]] }
  /\ store = Unloaded
  /\ remote = 0
  /\ task = [t \in Procs |-> IdleTask]
  /\ timerOn = FALSE
  /\ cmdsOn = FALSE
  /\ autoUpdate \in BOOLEAN
  /\ overlapped = FALSE
  /\ lookupRes = "none"

\* ------------------------------------------------- returns and rethrows
\* what the caller of loadMetadata makes of its outcome:
\* apply (145-146) resolves or rejects; the call at line 130 is not awaited,
\* so its rejection is nobody's; the timer callback (149-154) catches; the
\* emoji.update action (159-166) answers 元数据更新成功 or rejects
ResultOfLoad(t, ok) ==
  CASE t = "boot"     -> IF ok THEN "ok" ELSE "raised"
    [] t = "detached" -> IF ok THEN "ok" ELSE "unhandled"
    [] t = "timer"    -> IF ok THEN "reloaded" ELSE "swallowed"
    [] t = "manual"   -> IF ok THEN "updated" ELSE "raised"

\* mutant: the timer callback has no try/catch
ResultOfNoUpdateUncaught(t, r) ==
  CASE t = "manual" -> IF r = "threw" THEN "raised" ELSE "unchanged"
    [] OTHER        -> IF r = "threw" THEN "raised" ELSE "skipped"

\* what the caller of downloadMetadata in the timer callback / emoji.update
\* makes of a download that did not update
ResultOfNoUpdate(t, r) ==
  CASE t = "timer"  -> IF r = "threw" THEN "swallowed" ELSE "skipped"
    [] t = "manual" -> IF r = "threw" THEN "raised" ELSE "unchanged"
    [] OTHER        -> IF r = "threw" THEN "raised" ELSE "skipped"

\* loadMetadata returns (ok) or throws (~ok) to the caller of activity t;
\* apply goes on to register the timer and the commands (147-192)
LoadReturn(tk, t, ok) ==
  /\ task' = [tk EXCEPT ![t] = Ended(tk[t], ResultOfLoad(t, ok))]
  /\ IF t = "boot" /\ ok
       THEN timerOn' = autoUpdate /\ cmdsOn' = TRUE
       ELSE UNCHANGED <<timerOn, cmdsOn>>

\* line 130: loadMetadata(ctx) without await: the call runs to its first
\* await (existsSync, then await access / await downloadMetadata) and the
\* caller goes on
SpawnLoad(tk) ==
  [tk EXCEPT !["detached"] =
     IF disk.meta.kind = "absent"
       THEN [IdleTask EXCEPT !.pc = "dl", !.cold = TRUE]
       ELSE [IdleTask EXCEPT !.pc = "read"]]

\* mutant: the first-download branch does not look at success
ColdBranchReturnUnchecked(tk, t, r) ==
  IF r # "threw" THEN LoadReturn(SpawnLoad(tk), t, TRUE)
                 ELSE LoadReturn(tk, t, FALSE)

\* the first-download branch of loadMetadata (123-130) after
\* downloadMetadata gave r ("true", "false" or "threw")
ColdBranchReturn(tk, t, r) ==
  IF r = "true" THEN LoadReturn(SpawnLoad(tk), t, TRUE)
                ELSE LoadReturn(tk, t, FALSE)

\* mutant: a refresh that threw is tried once more inside the same trigger
DownloadReturnRetry(tk0, t, r) ==
  LET tk == [tk0 EXCEPT ![t].dl = r] IN
  IF tk[t].cold
    THEN ColdBranchReturn(tk, t, r)
    ELSE IF r = "true"
           THEN /\ task' = [tk EXCEPT ![t].pc = IF disk.meta.kind = "absent"
                                                  THEN "dl" ELSE "read",
                                      ![t].cold = (disk.meta.kind = "absent")]
                /\ UNCHANGED <<timerOn, cmdsOn>>
           ELSE IF r = "threw" /\ tk[t].gets = 1
                  THEN /\ task' = [tk EXCEPT ![t].pc = "dl"]
                       /\ UNCHANGED <<timerOn, cmdsOn>>
                  ELSE /\ task' = [tk EXCEPT ![t] = Ended(tk[t], ResultOfNoUpdate(t, r))]
                       /\ UNCHANGED <<timerOn, cmdsOn>>

\* downloadMetadata of activity t ends with r: in the first-download branch
\* of loadMetadata, or in the timer callback / emoji.update action
\* (if (updated) await loadMetadata(ctx))
DownloadReturn(tk0, t, r) ==
  LET tk == [tk0 EXCEPT ![t].dl = r] IN
  IF tk[t].cold
    THEN ColdBranchReturn(tk, t, r)
    ELSE IF r = "true"
           THEN /\ task' = [tk EXCEPT ![t].pc = IF disk.meta.kind = "absent"
                                                  THEN "dl" ELSE "read",
                                      ![t].cold = (disk.meta.kind = "absent")]
                /\ UNCHANGED <<timerOn, cmdsOn>>
           ELSE /\ task' = [tk EXCEPT ![t] = Ended(tk[t], ResultOfNoUpdate(t, r))]
                /\ UNCHANGED <<timerOn, cmdsOn>>

\* ---------------------------------------------------------------- actions
\* overlapped follows the refreshers: set when both are in flight, kept
\* while one of them is, cleared when neither is
Track ==
  overlapped' = ( \/ \A r \in Refreshers : Active(task', r)
                  \/ overlapped /\ \E r \in Refreshers : Active(task', r) )

\* mutant: a warm start with a descriptor on disk asks the server first
BootStartRevalidate ==
  /\ task["boot"].pc = "idle"
  /\ task' = [task EXCEPT !["boot"] =
       IF disk.meta.kind = "absent"
         THEN [IdleTask EXCEPT !.pc = "dl", !.cold = TRUE]
         ELSE IF disk.cache.kind # "absent"
                THEN [IdleTask EXCEPT !.pc = "dl"]
                ELSE [IdleTask EXCEPT !.pc = "read"]]
  /\ UNCHANGED <<disk, store, remote, timerOn, cmdsOn, autoUpdate, lookupRes>>
  /\ Track

\* apply: await loadMetadata(ctx); existsSync(metadataPath) picks the branch
BootStart ==
  /\ task["boot"].pc = "idle"
  /\ task' = [task EXCEPT !["boot"] =
       IF disk.meta.kind = "absent"
         THEN [IdleTask EXCEPT !.pc = "dl", !.cold = TRUE]
         ELSE [IdleTask EXCEPT !.pc = "read"]]
  /\ UNCHANGED <<disk, store, remote, timerOn, cmdsOn, autoUpdate, lookupRes>>
  /\ Track

\* a refresher starts downloadMetadata
StartRefresh(t) ==
  /\ task[t].pc \in {"idle", "done"}
  /\ task' = [task EXCEPT ![t] = [IdleTask EXCEPT !.pc = "dl"]]
  /\ UNCHANGED <<disk, store, remote, timerOn, cmdsOn, autoUpdate, lookupRes>>
  /\ Track

\* ctx.setInterval(async () => { ... }, config.updateInterval * 1000)
TimerTick == timerOn /\ StartRefresh("timer")

\* ctx.command('emoji.update').action(async () => { ... })
ManualUpdate == cmdsOn /\ StartRefresh("manual")

\* downloadMetadata 64-84: mkdir, read the descriptor, build the headers,
\* send the GET
DlStart(t) ==
  /\ task[t].pc = "dl"
  /\ task' = [task EXCEPT ![t].pc = "http",
                          ![t].req = RequestHeaders(ReadCacheMeta(disk.cache)),
                          ![t].gets = task[t].gets + 1]
  /\ UNCHANGED <<disk, store, remote, timerOn, cmdsOn, autoUpdate, lookupRes>>
  /\ Track

\* downloadMetadata 80-93 and 104-115: the GET settles with one of answers,
\* a 200 carrying one of bodies
Settle(t, answers, bodies) ==
  /\ task[t].pc = "http"
  /\ \E st \in answers :
       LET tk == [task EXCEPT ![t].status = st] IN
       IF AfterResponse(st) = "write"
         THEN \E h \in ServerHeaders(remote), k \in bodies :
                /\ task' = [tk EXCEPT ![t].pc = "write", ![t].w = 1,
                              ![t].resp = [ver |-> remote, kind |-> k,
                                           etag |-> h.etag,
                                           lastModified |-> h.lastModified]]
                /\ UNCHANGED <<timerOn, cmdsOn>>
         ELSE DownloadReturn(tk, t, AfterResponse(st))
  /\ UNCHANGED <<disk, store, remote, autoUpdate, lookupRes>>
  /\ Track

\* the GET settles, whatever the server does
HttpResponse(t) == Settle(t, ServerAnswers(task[t].req), ServerBodies)

\* a server that honours the revalidation headers: 304 when and only when a
\* token sent is the token of the resource as it is now
Fresh(req) ==
  \/ req.inm.defined /\ req.inm = Tok(remote)
  \/ req.ims.defined /\ req.ims = Tok(remote)

HonestAnswers(req) ==
  IF Fresh(req) THEN {"304"} ELSE ServerAnswers(req) \ {"304"}

HttpResponseHonest(t) == Settle(t, HonestAnswers(task[t].req), ServerBodies)

HttpResponseAny(t) == Settle(t, ServerAnswers(task[t].req), AnyBodies)

\* await fs.promises.writeFile (94, then 100); after the second one
\* downloadMetadata returns true
WriteFile(t) ==
  LET f == WriteOrder[task[t].w]
      tk == [task EXCEPT ![t].wrote = task[t].wrote \cup {f}] IN
  /\ task[t].pc = "write"
  /\ disk' = [disk EXCEPT ![f] = FileBytes(f, task[t].resp)]
  /\ IF task[t].w < Len(WriteOrder)
       THEN /\ task' = [tk EXCEPT ![t].w = task[t].w + 1]
            /\ UNCHANGED <<timerOn, cmdsOn>>
       ELSE DownloadReturn(tk, t, "true")
  /\ UNCHANGED <<store, remote, autoUpdate, lookupRes>>
  /\ Track

\* mkdir or a writeFile rejects: caught at 104, rethrown at 114
DlStorageFail(t) ==
  /\ task[t].pc \in {"dl", "write"}
  /\ DownloadReturn(task, t, Caught("io"))
  /\ UNCHANGED <<disk, store, remote, autoUpdate, lookupRes>>
  /\ Track

\* loadMetadata 134-135: await access, await readFile
LoadRead(t) ==
  /\ task[t].pc = "read"
  /\ task' = [task EXCEPT ![t].pc = "parse", ![t].data = disk.meta]
  /\ UNCHANGED <<disk, store, remote, timerOn, cmdsOn, autoUpdate, lookupRes>>
  /\ Track

\* access or readFile rejects: 139-140 throw 元数据加载失败
LoadFail(t) ==
  /\ task[t].pc = "read"
  /\ LoadReturn(task, t, FALSE)
  /\ UNCHANGED <<disk, store, remote, autoUpdate, lookupRes>>
  /\ Track

\* mutant: a body that does not parse clears the Store
LoadParseClears(t) ==
  /\ task[t].pc = "parse"
  /\ IF ParseOk(task[t].data)
       THEN /\ store' = setEmojiMetadata(store, ParseMetadata(task[t].data))
            /\ LoadReturn([task EXCEPT ![t].sets = task[t].sets + 1], t, TRUE)
       ELSE /\ store' = Unloaded
            /\ LoadReturn(task, t, FALSE)
  /\ UNCHANGED <<disk, remote, autoUpdate, lookupRes>>
  /\ Track

\* loadMetadata 136-141: JSON.parse, setEmojiMetadata, return; or throw
LoadParse(t) ==
  /\ task[t].pc = "parse"
  /\ IF ParseOk(task[t].data)
       THEN /\ store' = setEmojiMetadata(store, ParseMetadata(task[t].data))
            /\ LoadReturn([task EXCEPT ![t].sets = task[t].sets + 1], t, TRUE)
       ELSE /\ UNCHANGED store
            /\ LoadReturn(task, t, FALSE)
  /\ UNCHANGED <<disk, remote, autoUpdate, lookupRes>>
  /\ Track

\* ctx.command('emoji <emojis:string>').action: utils.getEmojiData(cp1)
Lookup ==
  /\ cmdsOn
  /\ lookupRes' = getEmojiData(store)
  /\ UNCHANGED <<disk, store, remote, task, timerOn, cmdsOn, autoUpdate>>
  /\ Track

\* the remote resource changes
RemoteChange ==
  /\ remote < MaxVer
  /\ remote' = remote + 1
  /\ UNCHANGED <<disk, store, task, timerOn, cmdsOn, autoUpdate, lookupRes>>
  /\ Track

\* the process dies and the host starts it again: memory is lost, the disk
\* stays as it is
Crash ==
  /\ task["boot"].pc # "idle"
  /\ store' = Unloaded
  /\ task' = [t \in Procs |-> IdleTask]
  /\ timerOn' = FALSE
  /\ cmdsOn' = FALSE
  /\ lookupRes' = "none"
  /\ UNCHANGED <<disk, remote, autoUpdate>>
  /\ Track

Step(t) ==
  \/ DlStart(t)
  \/ HttpResponse(t)
  \/ WriteFile(t)
  \/ DlStorageFail(t)
  \/ LoadRead(t)
  \/ LoadFail(t)
  \/ LoadParse(t)

\* the plugin without its users' lookups (a lookup changes nothing it reads)
Next ==
  \/ BootStart
  \/ TimerTick
  \/ ManualUpdate
  \/ \E t \in Procs : Step(t)
  \/ RemoteChange
  \/ Crash

Spec == Init /\ [][Next]_vars

\* the plugin with lookups handled at any time the command is registered
NextUse ==
  \/ Next
  \/ Lookup

SpecUse == Init /\ [][NextUse]_vars

\* refreshes run one at a time: a refresher starts only when the other one
\* is not in flight
Quiet(t) == \A o \in Refreshers \ {t} : ~Active(task, o)

TimerTickSeq == Quiet("timer") /\ TimerTick

ManualUpdateSeq == Quiet("manual") /\ ManualUpdate

NextSeq ==
  \/ BootStart
  \/ TimerTickSeq
  \/ ManualUpdateSeq
  \/ \E t \in Procs : Step(t)
  \/ RemoteChange
  \/ Crash

SpecSeq == Init /\ [][NextSeq]_vars

\* first run in an empty data directory, against a server that honours the
\* revalidation headers
InitEmpty == Init /\ disk = [meta |-> AbsentMeta, cache |-> AbsentCache]

StepHonest(t) ==
  \/ DlStart(t)
  \/ HttpResponseHonest(t)
  \/ WriteFile(t)
  \/ DlStorageFail(t)
  \/ LoadRead(t)
  \/ LoadFail(t)
  \/ LoadParse(t)

NextHonest ==
  \/ BootStart
  \/ TimerTick
  \/ ManualUpdate
  \/ \E t \in Procs : StepHonest(t)
  \/ RemoteChange
  \/ Crash

SpecEmpty == InitEmpty /\ [][NextHonest]_vars

\* ---------------------------------------------------------------------
\* The emoji command and utils.getEmojiCodepoint. A string is the sequence
\* of its UTF-16 code units; a codepoint string (a key of the document) is
\* the sequence of its characters.

MaxLen == 4
MaxDoc == 31

\* code units the inputs are made of: a space, U+2764, the high surrogate
\* D83D and the low surrogates DE02 and DC36 (U+1F602, U+1F436)
Units == {32, 10084, 55357, 56834, 56374}
Strings == UNION { [1..k -> Units] : k \in 0..MaxLen }

IsHigh(u) == u >= 55296 /\ u <= 56319
IsLow(u) == u >= 56320 /\ u <= 57343
\* WhiteSpace and LineTerminator code units, as String.prototype.trim sees them
IsWhiteSpace(u) ==
  u \in {9, 10, 11, 12, 13, 32, 160, 5760, 8232, 8233, 8239, 8287, 12288, 65279}
        \cup (8192..8202)

\* String.prototype.codePointAt, on the 1-based index i
codePointAt(str, i) ==
  IF IsHigh(str[i]) /\ i < Len(str) /\ IsLow(str[i + 1])
    THEN (str[i] - 55296) * 1024 + (str[i + 1] - 56320) + 65536
    ELSE str[i]

HexDigits == <<"0", "1", "2", "3", "4", "5", "6", "7",
               "8", "9", "a", "b", "c", "d", "e", "f">>

\* Number.prototype.toString(16)
RECURSIVE toString16(_)
toString16(n) ==
  IF n < 16 THEN <<HexDigits[n + 1]>>
  ELSE Append(toString16(n \div 16), HexDigits[(n % 16) + 1])

\* String.prototype.toLowerCase, on the characters a codepoint string has
toLowerCase(chars) ==
  [i \in 1..Len(chars) |->
     CASE chars[i] = "A" -> "a" [] chars[i] = "B" -> "b"
       [] chars[i] = "C" -> "c" [] chars[i] = "D" -> "d"
       [] chars[i] = "E" -> "e" [] chars[i] = "F" -> "f"
       [] OTHER -> chars[i]]

\* Array.prototype.join('-')
RECURSIVE join(_)
join(parts) ==
  IF parts = <<>> THEN <<>>
  ELSE IF Len(parts) = 1 THEN parts[1]
  ELSE parts[1] \o <<"-">> \o join(Tail(parts))

\* mutant: the loop never skips the low half of a pair
IndexStepNoSkip(code) == 1

\* utils.ts 15 and the i++ of the loop: how far the index moves
IndexStep(code) == IF code > 65535 THEN 2 ELSE 1

\* utils.ts 11-16: the loop, from index i with codePoints collected so far
RECURSIVE CodePointLoop(_, _, _)
CodePointLoop(emoji, i, codePoints) ==
  IF i > Len(emoji) THEN codePoints
  ELSE LET code == codePointAt(emoji, i) IN
       CodePointLoop(emoji, i + IndexStep(code),
                     Append(codePoints, toString16(code)))

getEmojiCodepoint(emoji) == toLowerCase(join(CodePointLoop(emoji, 1, <<>>)))

\* String.prototype.trim
RECURSIVE trimStart(_)
trimStart(str) ==
  IF str # <<>> /\ IsWhiteSpace(Head(str)) THEN trimStart(Tail(str)) ELSE str

RECURSIVE trimEnd(_)
trimEnd(str) ==
  IF str # <<>> /\ IsWhiteSpace(str[Len(str)])
    THEN trimEnd(SubSeq(str, 1, Len(str) - 1))
    ELSE str

trim(str) == trimEnd(trimStart(str))

\* Array.from(string): the string iterator yields one string per code point,
\* a high surrogate with the low one after it, any other unit alone
RECURSIVE ArrayFrom(_)
ArrayFrom(str) ==
  IF str = <<>> THEN <<>>
  ELSE LET n == IF Len(str) >= 2 /\ IsHigh(str[1]) /\ IsLow(str[2])
                  THEN 2 ELSE 1
       IN <<SubSeq(str, 1, n)>> \o ArrayFrom(SubSeq(str, n + 1, Len(str)))

\* keys of the documents the lookups run against
KeyJoy == <<"1", "f", "6", "0", "2">>
KeyDog == <<"1", "f", "4", "3", "6">>
KeyHeart == <<"2", "7", "6", "4">>

RECURSIVE Pow2(_)
Pow2(n) == IF n = 0 THEN 1 ELSE 2 * Pow2(n - 1)

\* document d: the list for a pair has d % 4 combinations, the isLatest
\* flags are the bits of d \div 4; U+2764 has no combinations, U+1F436 no entry
Combination(d, i) ==
  [gStaticUrl |-> <<d, i>>, isLatest |-> ((d \div 4) \div Pow2(i - 1)) % 2 = 1]

Combinations(d) == [i \in 1..(d % 4) |-> Combination(d, i)]

MetadataOf(d) ==
  [data |->
     (KeyJoy :> [combinations |-> (KeyDog :> Combinations(d))
                                  @@ (KeyHeart :> Combinations(d \div 4))])
     @@ (KeyHeart :> [combinations |-> <<>>])]

\* obj[key]
Property(obj, key) ==
  IF key \in DOMAIN obj THEN [defined |-> TRUE, value |-> obj[key]]
  ELSE [defined |-> FALSE, value |-> <<>>]

\* utils.getEmojiData past its guard: emojiMetadata.data[emojiCodepoint]
DataOf(s, emojiCodepoint) == Property(MetadataOf(s.doc).data, emojiCodepoint)

\* Array.prototype.find(c => c.isLatest): the index found, 0 for undefined
RECURSIVE FindLatest(_, _)
FindLatest(list, i) ==
  IF i > Len(list) THEN 0
  ELSE IF list[i].isLatest THEN i
  ELSE FindLatest(list, i + 1)

\* mutant: the first element, whatever is latest
ComboFirst(list) == list[1]

\* index.ts 187: combinations.find(c => c.isLatest) || combinations[0]
Combo(list) ==
  IF FindLatest(list, 1) # 0 THEN list[FindLatest(list, 1)] ELSE list[1]

\* mutant: two or more are let through
ExactlyTwoOrMore(emojiArr) == Len(emojiArr) >= 2

\* index.ts 174: emojiArr.length !== 2 returns
ExactlyTwo(emojiArr) == Len(emojiArr) = 2

Reply(kind, url, queries) ==
  [kind |-> kind, url |-> url, queries |-> queries, raised |-> FALSE]

NoInput == [given |-> FALSE, str |-> <<>>]
Input(str) == [given |-> TRUE, str |-> str]

\* index.ts 171-191: the action of the emoji command
emojiCommand(s, emojis) ==
  IF ~emojis.given \/ emojis.str = <<>> THEN Reply("usage", <<>>, 0)
  ELSE
    LET emojiArr == ArrayFrom(trim(emojis.str)) IN
    IF ~ExactlyTwo(emojiArr) THEN Reply("usageExactlyTwo", <<>>, 0)
    ELSE
      LET cp1 == getEmojiCodepoint(emojiArr[1])
          cp2 == getEmojiCodepoint(emojiArr[2])
      IN
      IF getEmojiData(s) = "notLoaded" THEN Reply("failed", <<>>, 1)
      ELSE
        LET data1 == DataOf(s, cp1)
            combinations ==
              IF data1.defined THEN Property(data1.value.combinations, cp2)
              ELSE data1
        IN
        IF ~combinations.defined \/ Len(combinations.value) = 0
          THEN Reply("notFound", <<>>, 1)
          ELSE Reply("image", Combo(combinations.value).gStaticUrl, 1)

\* String.prototype.split('-')
RECURSIVE split(_, _)
split(chars, part) ==
  IF chars = <<>> THEN <<part>>
  ELSE IF Head(chars) = "-" THEN <<part>> \o split(Tail(chars), <<>>)
  ELSE split(Tail(chars), Append(part, Head(chars)))

\* parseInt(part, 16) on a part made of hex digits
HexValue(c) == CHOOSE n \in 0..15 : HexDigits[n + 1] = c

RECURSIVE parseInt16(_, _)
parseInt16(part, acc) ==
  IF part = <<>> THEN acc
  ELSE parseInt16(Tail(part), acc * 16 + HexValue(Head(part)))

\* String.fromCodePoint
fromCodePoint(code) ==
  IF code > 65535
    THEN << 55296 + ((code - 65536) \div 1024), 56320 + ((code - 65536) % 1024) >>
    ELSE <<code>>

RECURSIVE fromCodePoints(_)
fromCodePoints(codes) ==
  IF codes = <<>> THEN <<>>
  ELSE fromCodePoint(Head(codes)) \o fromCodePoints(Tail(codes))

\* utils.toPrintableEmoji
toPrintableEmoji(emojiCodepoint) ==
  LET parts == split(emojiCodepoint, <<>>) IN
  fromCodePoints([k \in 1..Len(parts) |-> parseInt16(parts[k], 0)])

\* one call of the command or of the conversion, on every input up to MaxLen
\* code units and every Store
NoCall == [op |-> "none", input |-> NoInput, out |-> <<>>]

InitLookup ==
  /\ disk = [meta |-> AbsentMeta, cache |-> AbsentCache]
  /\ store \in {Unloaded} \cup {Document(d) : d \in 0..MaxDoc}
  /\ remote = 0
  /\ task = [t \in Procs |-> IdleTask]
  /\ timerOn = FALSE
  /\ cmdsOn = TRUE
  /\ autoUpdate = FALSE
  /\ overlapped = FALSE
  /\ lookupRes = NoCall

EmojiCommand ==
  /\ cmdsOn
  /\ lookupRes = NoCall
  /\ \E emojis \in {NoInput} \cup {Input(str) : str \in Strings} :
       lookupRes' = [op |-> "emoji", input |-> emojis,
                     out |-> emojiCommand(store, emojis)]
  /\ UNCHANGED <<disk, store, remote, task, timerOn, cmdsOn, autoUpdate,
                 overlapped>>

Encode ==
  /\ lookupRes = NoCall
  /\ \E str \in Strings :
       lookupRes' = [op |-> "codepoint", input |-> Input(str),
                     out |-> getEmojiCodepoint(str)]
  /\ UNCHANGED <<disk, store, remote, task, timerOn, cmdsOn, autoUpdate,
                 overlapped>>

NextLookup ==
  \/ EmojiCommand
  \/ Encode

SpecLookup == InitLookup /\ [][NextLookup]_vars

\* autoUpdate on, storage that works, no restart, and a server that answers
\* every GET correctly: 200 with the document as it is now, or 304 when a
\* token sent is that document's; every await settles and the timer keeps
\* firing
CorrectAnswers(req) == IF Fresh(req) THEN {"200", "304"} ELSE {"200"}

HttpResponseCorrect(t) == Settle(t, CorrectAnswers(task[t].req), {"json"})

InitLive == Init /\ autoUpdate

StepLive(t) ==
  \/ DlStart(t)
  \/ HttpResponseCorrect(t)
  \/ WriteFile(t)
  \/ LoadRead(t)
  \/ LoadParse(t)

NextLive ==
  \/ BootStart
  \/ TimerTick
  \/ ManualUpdate
  \/ \E t \in Procs : StepLive(t)
  \/ RemoteChange

SpecLive ==
  /\ InitLive
  /\ [][NextLive]_vars
  /\ WF_vars(BootStart)
  /\ WF_vars(TimerTick)
  /\ \A t \in Procs : WF_vars(StepLive(t))

\* the plugin against a server whose 200 may also carry the JSON text null
StepAny(t) ==
  \/ DlStart(t)
  \/ HttpResponseAny(t)
  \/ WriteFile(t)
  \/ DlStorageFail(t)
  \/ LoadRead(t)
  \/ LoadFail(t)
  \/ LoadParse(t)

NextAny ==
  \/ BootStart
  \/ TimerTick
  \/ ManualUpdate
  \/ \E t \in Procs : StepAny(t)
  \/ RemoteChange
  \/ Crash

SpecAny == Init /\ [][NextAny]_vars

TypeOK ==
  /\ store \in {Unloaded} \cup {Document(v) : v \in 0..MaxVer} \cup {Null}
  /\ \A t \in Procs : task[t].pc \in
       {"idle", "dl", "http", "write", "read", "parse", "done"}


\* ------------------------------------------------------------------ claims
\* activity t ends in this step
Completes(t) == task[t].pc # "done" /\ task'[t].pc = "done"

\* the body activity t got from the server, as it lies in metadata.json
OwnBody(t) == FileBytes("meta", task[t].resp)

\* C1: after a cold start (metadata.json absent, the server sent a body) has
\* completed and the commands are registered, no lookup fails with
\* 元数据未加载.
C1_ColdStartLoaded ==
  ( /\ task["boot"].pc = "done"
    /\ task["boot"].cold
    /\ task["boot"].result = "ok" ) => lookupRes # "notLoaded"

\* C2: with refreshes run one at a time and a crash at any step, every
\* refresh writes metadata.json before metadata.cache.json, and the response
\* the descriptor comes from is never newer than the response whose body is
\* in metadata.json.
C2_ContentBeforeDescriptor ==
  /\ \A t \in Procs : "cache" \in task[t].wrote => "meta" \in task[t].wrote
  /\ (disk.cache.kind = "desc" /\ disk.meta.kind # "absent")
       => disk.cache.src <= disk.meta.src

\* C2 witness: after a crash between the two writes the disk holds the new
\* body and the old descriptor
C2_Witness ==
  /\ \A t \in Procs : task[t].pc = "idle"
  /\ disk.cache.kind = "desc"
  /\ disk.meta.kind # "absent"
  /\ disk.cache.src < disk.meta.src

\* C3: once a periodic refresh and a manual refresh that both updated and
\* reloaded have finished, the descriptor on disk comes from the response
\* whose body is in metadata.json.
C3_DescriptorMatchesContent ==
  ( /\ task["timer"].pc = "done"
    /\ task["timer"].result = "reloaded"
    /\ task["manual"].pc = "done"
    /\ task["manual"].result = "updated" )
  => disk.cache.src = disk.meta.src

\* C4: a refresh answered 304 returns false and writes neither file; the
\* tick or manual refresh leaves the Store alone, and manual refresh answers
\* 元数据未变更.
C4_NotModified ==
  \A t \in Procs : task[t].status = "304" =>
    /\ task[t].pc = "done"
    /\ task[t].dl = "false"
    /\ task[t].wrote = {}
    /\ task[t].sets = 0
    /\ t = "manual" => task[t].result = "unchanged"
    /\ t = "timer" => task[t].result = "skipped"

C4_Witness ==
  /\ task["manual"].status = "304"
  /\ task["manual"].result = "unchanged"
  /\ store.loaded

\* C5: a refresh answered with a zero-length body returns false without
\* raising, writes neither file, and manual refresh answers 元数据未变更.
C5_EmptyBodyIsNoOp ==
  \A t \in Procs : (task[t].pc = "done" /\ task[t].status = "empty") =>
    /\ task[t].dl = "false"
    /\ task[t].wrote = {}
    /\ t = "manual" => task[t].result = "unchanged"

\* C6: a warm start (metadata.json present) sends no HTTP request before
\* bootstrap completes, with or without a descriptor on disk, and completes
\* with the Store holding the parse of metadata.json.
C6_WarmStart ==
  LET b == task["boot"] IN
  (b.pc # "idle" /\ ~b.cold) =>
    /\ b.gets = 0
    /\ b.status = "none"
    /\ b.pc # "done" => \A t \in Procs : task[t].gets = 0
    /\ (b.pc = "done" /\ b.result = "ok") => store # Unloaded /\ b.sets = 1
    /\ ( /\ b.pc = "done"
         /\ b.result = "ok"
         /\ \A t \in Refreshers : task[t].pc = "idle" )
       => store = ParseMetadata(disk.meta)

C6_Witness ==
  /\ task["boot"].pc = "done"
  /\ ~task["boot"].cold
  /\ task["boot"].result = "ok"
  /\ disk.cache.kind = "desc"
  /\ store = ParseMetadata(disk.meta)

\* C7 as claimed: when a tick's refresh returned true, or manual refresh
\* answers 元数据更新成功, the Store at that moment is the parse of the body
\* this refresh wrote.
C7_UpdatedMeansReloaded ==
  [][ \A t \in Refreshers :
        ( /\ Completes(t)
          /\ \/ t = "timer" /\ task'[t].dl = "true"
             \/ t = "manual" /\ task'[t].result = "updated" )
        => ParseOk(OwnBody(t)) /\ store' = ParseMetadata(OwnBody(t)) ]_vars

\* C7 as amended: when the refresh returned true and the reload succeeded,
\* the Store at that moment is the parse of what the reload read from
\* metadata.json, which is this refresh's body when no other refresh was in
\* flight; when the reload failed the Store is unchanged, the tick swallows
\* the error and manual refresh raises.
C7_ReloadedOnUpdate ==
  [][ \A t \in Refreshers :
        (Completes(t) /\ task'[t].dl = "true") =>
          IF task'[t].result \in {"updated", "reloaded"}
            THEN /\ ParseOk(task[t].data)
                 /\ store' = ParseMetadata(task[t].data)
                 /\ ~overlapped => task[t].data = OwnBody(t)
            ELSE /\ store' = store
                 /\ task'[t].result = IF t = "timer" THEN "swallowed" ELSE "raised" ]_vars

C7_Witness ==
  /\ task["manual"].pc = "done"
  /\ task["manual"].result = "updated"
  /\ task["timer"].pc = "done"
  /\ task["timer"].result = "reloaded"
  /\ store = Document(MaxVer)

\* C8: a tick that fails never lets the error out of the timer callback, it
\* leaves the Store alone, and the timer stays registered.
C8_TickNeverEscapes ==
  LET tm == task["timer"] IN
  /\ tm.result \in {"none", "skipped", "reloaded", "swallowed"}
  /\ (tm.pc = "done" /\ tm.result = "swallowed") => tm.sets = 0
  /\ (tm.pc = "done" /\ tm.dl = "threw") => tm.result = "swallowed"
  /\ tm.pc # "idle" => timerOn
  /\ tm.pc = "done" => ENABLED TimerTick

C8_Witness ==
  /\ task["timer"].pc = "done"
  /\ task["timer"].result = "swallowed"
  /\ task["timer"].dl = "true"
  /\ store.loaded
  /\ timerOn

\* C9: in bootstrap and manual refresh a refresh error (timeout, HTTP error
\* status, storage failure) is raised to the caller; a failed manual refresh
\* never answers unchanged or updated.
C9_ErrorsPropagate ==
  \A t \in {"boot", "manual"} :
    ( /\ task[t].pc = "done"
      /\ \/ task[t].status \in {"httperr", "timeout"}
         \/ task[t].dl = "threw" )
    => task[t].dl = "threw" /\ task[t].result = "raised"

C9_Witness ==
  /\ task["manual"].pc = "done"
  /\ task["manual"].status = "timeout"
  /\ task["manual"].result = "raised"

\* C10: a cold start whose refresh does not return true (it throws, gets a
\* 304 or an empty body) makes apply reject: no timer, no commands, nothing
\* else running, and the Store unloaded.
C10_ColdStartFatal ==
  LET b == task["boot"] IN
  (b.pc = "done" /\ b.cold) =>
    /\ b.result = "raised" <=> b.dl # "true"
    /\ b.result = "raised" =>
         /\ ~timerOn
         /\ ~cmdsOn
         /\ store = Unloaded
         /\ \A t \in Procs \ {"boot"} : task[t].pc = "idle"

C10_Witness ==
  /\ task["boot"].pc = "done"
  /\ task["boot"].cold
  /\ task["boot"].status = "304"
  /\ task["boot"].result = "raised"
  /\ ~cmdsOn


\* C11: round trip. A refresh that finds on disk the descriptor persisted
\* from a response for the resource as it is now (no other refresh in
\* flight) is not answered 200 by a server that honours the headers: it sent
\* that response's tokens and got 304.
C11_RoundTrip ==
  \A t \in Refreshers :
    ( /\ task[t].pc = "write"
      /\ task[t].w = 1
      /\ Quiet(t)
      /\ ~overlapped
      /\ disk.cache.kind = "desc" )
    => disk.cache.src # task[t].resp.ver

\* what the claims about the command and the conversion say of an input:
\* its code points after trimming, counted on the code units
PairTail(str, i) == IsLow(str[i]) /\ i > 1 /\ IsHigh(str[i - 1])

CodePointCount(str) ==
  Len(str) - Cardinality({i \in 1..Len(str) : PairTail(str, i)})

Trimmed(str) ==
  LET ink == {i \in 1..Len(str) : ~IsWhiteSpace(str[i])} IN
  IF ink = {} THEN <<>>
  ELSE SubSeq(str, CHOOSE i \in ink : \A j \in ink : i <= j,
                   CHOOSE i \in ink : \A j \in ink : i >= j)

CharsGiven(emojis) ==
  IF emojis.given THEN CodePointCount(Trimmed(emojis.str)) ELSE 0

\* C12: the emoji command goes on to a lookup only for an input of exactly
\* two code points after trimming; for any other input, a missing or
\* whitespace-only one included, it answers a usage message without a Store
\* query; it never raises.
C12_UsageUnlessTwo ==
  lookupRes.op = "emoji" =>
    /\ ~lookupRes.out.raised
    /\ CharsGiven(lookupRes.input) # 2 =>
         /\ lookupRes.out.kind \in {"usage", "usageExactlyTwo"}
         /\ lookupRes.out.queries = 0
    /\ CharsGiven(lookupRes.input) = 2 =>
         lookupRes.out.kind \in {"failed", "notFound", "image"}

C12_Witness ==
  /\ lookupRes.op = "emoji"
  /\ store.loaded
  /\ Len(lookupRes.input.str) = MaxLen
  /\ CharsGiven(lookupRes.input) = 3
  /\ lookupRes.out.kind = "usageExactlyTwo"
  /\ lookupRes.out.queries = 0

\* C13: a lookup of two characters (a, b) against a loaded document answers
\* not found when data[encode(a)].combinations[encode(b)] is missing or
\* empty, and otherwise the image of the first combination, in list order,
\* whose isLatest is true, or of the first element when none is.
C13_FirstLatestOrFirst ==
  ( /\ lookupRes.op = "emoji"
    /\ store.loaded
    /\ CharsGiven(lookupRes.input) = 2 )
  =>
    LET chars == ArrayFrom(trim(lookupRes.input.str))
        entry == Property(MetadataOf(store.doc).data, getEmojiCodepoint(chars[1]))
        list == IF entry.defined
                  THEN Property(entry.value.combinations,
                                getEmojiCodepoint(chars[2]))
                  ELSE entry
        latest == {i \in 1..Len(list.value) : list.value[i].isLatest}
    IN
    IF ~list.defined \/ list.value = <<>>
      THEN lookupRes.out.kind = "notFound"
      ELSE /\ lookupRes.out.kind = "image"
           /\ lookupRes.out.url =
                IF latest = {} THEN list.value[1].gStaticUrl
                ELSE list.value[CHOOSE i \in latest :
                                  \A j \in latest : i <= j].gStaticUrl

C13_Witness ==
  /\ lookupRes.op = "emoji"
  /\ lookupRes.out.kind = "image"
  /\ lookupRes.out.url[2] = 2

\* a string of whole scalars: every high surrogate has its low one after it
\* and every low surrogate its high one before it
WellFormed(str) ==
  \A i \in 1..Len(str) :
    /\ IsHigh(str[i]) => i < Len(str) /\ IsLow(str[i + 1])
    /\ IsLow(str[i]) => i > 1 /\ IsHigh(str[i - 1])

\* the k-th scalar of a well-formed string
ScalarAt(str, k) ==
  LET starts == {i \in 1..Len(str) : ~IsLow(str[i])}
      p == CHOOSE i \in starts : Cardinality({j \in starts : j <= i}) = k
  IN IF IsHigh(str[p])
       THEN 65536 + (str[p] - 55296) * 1024 + (str[p + 1] - 56320)
       ELSE str[p]

LowerHex(part) ==
  /\ part # <<>>
  /\ \A i \in 1..Len(part) : \E n \in 0..15 : HexDigits[n + 1] = part[i]
  /\ Len(part) > 1 => part[1] # "0"

\* C15: getEmojiCodepoint of a string of n scalars is n hyphen-joined
\* segments, the k-th being the lowercase hex of the k-th scalar; a surrogate
\* pair is one scalar and gives one segment (U+1F602 gives 1f602), and
\* toPrintableEmoji takes the result back to the string.
C15_OneSegmentPerScalar ==
  (lookupRes.op = "codepoint" /\ WellFormed(lookupRes.input.str)) =>
    LET str == lookupRes.input.str
        n == CodePointCount(str)
        parts == split(lookupRes.out, <<>>)
    IN IF n = 0 THEN lookupRes.out = <<>>
       ELSE /\ Len(parts) = n
            /\ \A k \in 1..n :
                 /\ LowerHex(parts[k])
                 /\ parseInt16(parts[k], 0) = ScalarAt(str, k)
            /\ toPrintableEmoji(lookupRes.out) = str

C15_Witness ==
  /\ lookupRes.op = "codepoint"
  /\ lookupRes.input.str = <<55357, 56834, 10084>>
  /\ lookupRes.out = KeyJoy \o <<"-">> \o KeyHeart

\* C14: a Store query (getEmojiData, getSupportedEmoji) fails with
\* 元数据未加载 exactly while setEmojiMetadata has not been called since the
\* process started: before the first load every query fails, and once a load
\* has assigned the Store no query fails that way again.
C14_NotLoadedOnlyBeforeFirstLoad ==
  /\ store = Unloaded =>
       getEmojiData(store) = "notLoaded" /\ getSupportedEmoji(store) = "notLoaded"
  /\ store # Unloaded =>
       getEmojiData(store) # "notLoaded" /\ getSupportedEmoji(store) # "notLoaded"

\* C16: the Store changes only by one assignment of a whole document, made
\* after metadata.json has been read completely and parsed: in every state
\* it is unloaded or the parse of one whole body that was in metadata.json;
\* a body that does not parse leaves the document that was there.
C16_WholeDocument ==
  /\ [](store \in {Unloaded}
                  \cup {ParseMetadata(MetaFile("json", v)) : v \in 0..remote})
  /\ [][ /\ \A t \in Procs :
              (task[t].pc = "read" /\ task'[t].pc = "parse") =>
                task'[t].data = disk.meta /\ disk.meta.kind # "absent"
         /\ store' # store =>
              \/ task["boot"].pc # "idle" /\ task'["boot"].pc = "idle"
              \/ \E t \in Procs :
                   /\ task[t].pc = "parse"
                   /\ ParseOk(task[t].data)
                   /\ store' = ParseMetadata(task[t].data)
         /\ \A t \in Procs :
              (task[t].pc = "parse" /\ ~ParseOk(task[t].data) /\ Completes(t))
              => store' = store ]_vars

C16_Witness ==
  /\ task["manual"].pc = "done"
  /\ task["manual"].result = "raised"
  /\ task["manual"].dl = "true"
  /\ disk.meta.kind = "garbage"
  /\ store.loaded
  /\ store.doc # disk.meta.src

\* C17 as claimed: every tick and every manual refresh issues exactly one
\* HTTP GET.
C17_ExactlyOneGet ==
  \A t \in Refreshers : task[t].pc = "done" => task[t].gets = 1

\* C17 as amended: a tick or a manual refresh issues at most one HTTP GET,
\* exactly one once it is past the request, and none only when it failed
\* before the request (the data directory could not be created); after the
\* GET has failed the same trigger sends no other.
C17_NoRetry ==
  \A t \in Refreshers :
    /\ task[t].gets <= 1
    /\ task[t].pc \in {"http", "write", "read", "parse"} => task[t].gets = 1
    /\ task[t].status # "none" => task[t].gets = 1
    /\ (task[t].pc = "done" /\ task[t].gets = 0) =>
         /\ task[t].status = "none"
         /\ task[t].result = IF t = "timer" THEN "swallowed" ELSE "raised"

C17_Witness ==
  /\ task["timer"].pc = "done"
  /\ task["timer"].status = "timeout"
  /\ task["timer"].gets = 1
  /\ task["manual"].pc = "done"
  /\ task["manual"].status = "httperr"
  /\ task["manual"].gets = 1

\* C18: started in an empty data directory, whatever refreshes run, overlap
\* or are cut by a crash, metadata.cache.json is never there without
\* metadata.json; so a first download (metadata.json absent) finds no
\* descriptor, sends no conditional header and is never answered 304.
C18_DescriptorImpliesContent ==
  /\ disk.cache.kind # "absent" => disk.meta.kind # "absent"
  /\ \A t \in Procs :
       (task[t].cold /\ task[t].gets > 0) =>
         /\ task[t].pc # "done" => task[t].req = NoHeaders
         /\ task[t].status # "304"

C18_Witness ==
  /\ task["boot"].pc = "write"
  /\ task["boot"].cold
  /\ task["boot"].req = NoHeaders
  /\ task["boot"].status = "200"
  /\ disk.meta.kind # "absent"
  /\ disk.cache.kind = "absent"

\* C19: eventual freshness. With autoUpdate on, when the remote resource
\* settles on a document v, the ticks keep firing and the server answers
\* correctly, the Store eventually holds v and keeps holding it, however
\* ticks and manual refreshes interleave.
C19_EventuallyFresh ==
  \A v \in 0..MaxVer : <>[](remote = v) => <>[](store = Document(v))

C19_Witness ==
  /\ remote = MaxVer
  /\ store = Document(MaxVer)
  /\ task["timer"].result = "reloaded"
  /\ task["manual"].result = "updated"
  /\ overlapped = FALSE

=============================================================================
